---- MODULE Spec2Model ----
(***************************************************************************)
(* pfman: the process supervisor (src/src/process.rs) together with the    *)
(* interactive loop that drives it (src/src/main.rs, src/src/ui/mod.rs).   *)
(*                                                                         *)
(* Two threads share the tracking set (a mutex-guarded Vec), the update    *)
(* channel and the per-session log files.  Every critical section of the   *)
(* tracking-set lock is one action.  What a thread does between two of its *)
(* critical sections is joined to the neighbouring step only where it      *)
(* commutes with every step of the other thread (sending the signal and    *)
(* spawning a fresh pid touch nothing the monitor reads), so the other     *)
(* thread, the child processes and the clock interleave wherever the code  *)
(* lets them make a difference.                                            *)
(***************************************************************************)
EXTENDS Integers, Sequences, FiniteSets, TLC

\* ---------------------------------------------------------------- bounds
MaxSpawn == 1           \* children start_session may spawn in one run
MaxTicks == 1           \* clock advances in one run

\* ------------------------------------------------------- program constants
EarlyWindow == 15       \* seconds of the early-verification window
None == 0               \* Option::None of a pid
NoTime == -1            \* Option::None of a timestamp

\* The session ids a registry file may hold, in the file's order.
Ids == {1, 2}
NumSessions == Cardinality(Ids)
\* pid i is the child a previous run left behind for session i; the children
\* of this run get the pids after them.
Pids == 1..(NumSessions + MaxSpawn)

VARIABLES
    sessions,            \* the registry: AppState.sessions, by session id
    monitored_sessions,  \* the tracking set: Vec<MonitoredSession> behind the mutex
    lock,                \* the thread that holds the mutex of the tracking set
    update_channel,      \* StatusUpdates sent and not yet received
    shutdown_channel,    \* shutdown signals sent and not yet received
    logs,                \* the log file of each session id: the text at its end
    procs,               \* the OS process table: the pids that are alive
    owner,               \* the session each child was spawned for
    signalled,           \* the live pids a termination signal was sent to
    spawned,             \* how many children this run has spawned
    now,                 \* Utc::now(), in seconds
    ticks,               \* how many times the clock has advanced
    mon,                 \* the monitor thread: its position and locals
    ui,                  \* the interactive thread: its position, its locals and what
                         \* the ProcessManager call of this turn of the loop returned
    reported             \* ids with a crash update sent since start_session last
                         \* returned Ok for them

vars == <<sessions, monitored_sessions, lock, update_channel, shutdown_channel, logs,
          procs, owner, signalled, spawned, now, ticks, mon, ui, reported>>

\* ------------------------------------------------------------ data model
Stopped == [present |-> TRUE, status |-> "Stopped", msg |-> "",
            pid |-> None, last_started |-> NoTime]

NoSession == [present |-> FALSE, status |-> "Stopped", msg |-> "",
              pid |-> None, last_started |-> NoTime]

\* A session the registry file holds as Running: pid and last_started are those
\* of the previous run.
PersistedRunning(i) == [present |-> TRUE, status |-> "Running", msg |-> "",
                        pid |-> i, last_started |-> 0]

MonitoredSession(i, p, t) == [id |-> i, pid |-> p, started_at |-> t]

\* StatusUpdate that reports the exit of the process as a stop.
StatusUpdateStopped(i, m) ==
    [session_id |-> i, status |-> "Stopped", msg |-> "", pid |-> None]

StatusUpdate(i, m) == [session_id |-> i, status |-> "Error", msg |-> m, pid |-> None]

\* The banner the supervisor writes: its label and the pid it prints.
Separator(label, p) == [kind |-> label, pid |-> p]

\* What a child writes to its redirected stdout and stderr: any text at all.
Output == Separator("output", None)

\* A log file that holds nothing. Of a log the supervisor only ever reads the
\* last 3 lines, and every banner is as long as those, so a log is kept as the
\* piece of text at its end: a banner, or what a child wrote after one.
EmptyLog == Separator("", None)

Idle == [pc |-> "idle", id |-> 0, restart |-> FALSE, pid |-> None, ret |-> ""]

\* The handler has returned and the loop goes on to its drain; ret is what the
\* handler's last ProcessManager call, made for session i, returned.
Polling(i, result) == [pc |-> "poll", id |-> i, restart |-> FALSE, pid |-> None,
                       ret |-> result]

\* The interactive thread in its teardown, at step pc of it.
TearingDown(pc) == [Idle EXCEPT !.pc = pc]

MonIdle(pc) == [pc |-> pc, snapshot |-> <<>>, sys |-> {}, now |-> 0, crashed |-> <<>>]

\* The monitor thread has ended: its loop has returned or it has panicked.
MonExited == mon.pc \in {"exited", "panicked"}

\* The manager has dropped the receiving end of the update channel.
ReceiverDropped == ui.pc \in {"drop_join", "done"}

\* The entries the Vec monitored holds for session i, by position.
EntriesOf(monitored, i) == {k \in DOMAIN monitored : monitored[k].id = i}

Tracked(i) == EntriesOf(monitored_sessions, i) # {}

SeqRange(s) == {s[k] : k \in DOMAIN s}

\* ---------------------------------------------------------------- storage
\* What becomes of an append_log call: the text is written; or the call fails
\* before it opens the file for writing (read_logs or the open fails); or
\* fs::write has opened the file, which empties it, and then fails to write.
AppendOutcomes == {"written", "unwritten", "truncated"}

\* append_log: the file afterwards (every caller drops the Result).
append_log(log, content, outcome) ==
    CASE outcome = "written" -> content
      [] outcome = "truncated" -> EmptyLog
      [] OTHER -> log

\* get_last_log_lines(..).unwrap_or_else(fallback): the caller's fallback when
\* the log cannot be read, the fixed text for an empty log, and otherwise the
\* tail of the log, named here by the piece of text the log ends with.
get_last_log_lines(log, readOk, fallback) ==
    IF ~readOk THEN fallback
    ELSE IF log = EmptyLog THEN "Process exited without output"
    ELSE log.kind

\* process.rs 167-169: the joined lines are cut 100 bytes before their end. The
\* banners are ASCII; the text of a child may hold multi-byte characters, and
\* a cut that falls inside one of them makes the slice panic.
SliceMayPanic(log, readOk) == readOk /\ log = Output

\* ------------------------------------------------------------------ Init
\* ProcessManager::new has run: the monitor thread is at the top of its loop,
\* the tracking set is empty, and the registry holds what the file held. The
\* children of the previous run are alive until they exit.
Init ==
    /\ sessions \in [Ids -> {NoSession, Stopped} \cup {PersistedRunning(i) : i \in Ids}]
    /\ \A i \in Ids : sessions[i].pid \in {None, i}
    /\ \A i \in Ids : sessions[i].present <=> i = 1
    /\ monitored_sessions = <<>>
    /\ lock = "free"
    /\ update_channel = <<>>
    /\ shutdown_channel = 0
    /\ logs = [i \in Ids |-> EmptyLog]
    /\ procs = {sessions[i].pid : i \in {j \in Ids : sessions[j].pid # None}}
    /\ owner = [p \in Pids |-> IF p \in procs THEN p ELSE 0]
    /\ signalled = {}
    /\ spawned = 0
    /\ now = 0
    /\ ticks = 0
    /\ mon = MonIdle("snapshot")
    /\ ui = [Idle EXCEPT !.pc = "init"]
    /\ reported = {}

\* ------------------------------------------------------ the monitor thread
\* The holder of the lock once the block of process.rs 58-61 has ended: the
\* guard is dropped with it.
SnapshotGuardKept == "mon"
SnapshotGuard == "free"

\* process.rs 58-69: the snapshot, taken under the lock, then now and the process
\* table, read once per cycle. Of the table the cycle only ever asks for the
\* pids of its snapshot.
MonSnapshot ==
    /\ mon.pc = "snapshot"
    /\ lock = "free"
    /\ lock' = SnapshotGuard
    /\ mon' = [pc |-> "check", snapshot |-> monitored_sessions, now |-> now,
               sys |-> procs \cap {monitored_sessions[k].pid : k \in DOMAIN monitored_sessions},
               crashed |-> <<>>]
    /\ UNCHANGED <<sessions, monitored_sessions, update_channel, shutdown_channel,
                   logs, procs, owner, signalled, spawned, now, ticks, ui, reported>>

\* process.rs 89-93: the send, whose Result is dropped; it fails once the
\* receiver is gone.
send(channel, update, receiverDropped) ==
    IF receiverDropped THEN channel ELSE Append(channel, update)

\* process.rs 75-95 and 103-126: marker, diagnostic, update, crashed_sessions.push.
\* log is the file as get_last_log_lines finds it.
MonReport(session, log, fallback, readOk) ==
    LET error_msg == get_last_log_lines(log, readOk, fallback)
    IN /\ logs' = [logs EXCEPT ![session.id] = log]
       /\ update_channel' = send(update_channel, StatusUpdate(session.id, error_msg),
                                 ReceiverDropped)
       /\ reported' = reported \cup {session.id}
       /\ mon' = [mon EXCEPT !.snapshot = Tail(mon.snapshot),
                             !.crashed = Append(mon.crashed, session.id)]

\* process.rs 169: the slice panics and the monitor thread unwinds, the marker
\* written and nothing sent.
MonPanic(session, log) ==
    /\ logs' = [logs EXCEPT ![session.id] = log]
    /\ mon' = [mon EXCEPT !.pc = "panicked"]
    /\ UNCHANGED <<update_channel, reported>>

\* process.rs 84-95: the marker is appended and the log read back; a live child
\* of the session may write to the log between the two.
MonMarkAndReport(session, label, fallback) ==
    \E outcome \in AppendOutcomes, childWrote, readOk, boundaryOk \in BOOLEAN :
       /\ childWrote => \E p \in procs : owner[p] = session.id
       /\ LET marked == append_log(logs[session.id], Separator(label, session.pid),
                                   outcome)
              log == IF childWrote THEN append_log(marked, Output, "written")
                     ELSE marked
          IN IF SliceMayPanic(log, readOk) /\ ~boundaryOk
             THEN MonPanic(session, log)
             ELSE MonReport(session, log, fallback, readOk)

MonSkip ==
    /\ mon' = [mon EXCEPT !.snapshot = Tail(mon.snapshot)]
    /\ UNCHANGED <<logs, update_channel, reported>>

\* process.rs 71-132: the body of the loop over the snapshot, for its next entry.
\* Both liveness tests read sys, the table this cycle read at its start.
MonCheck ==
    /\ mon.pc = "check"
    /\ mon.snapshot # <<>>
    /\ LET session == Head(mon.snapshot)
       IN IF session.pid = None THEN MonSkip
          ELSE IF session.pid \notin mon.sys
          THEN MonMarkAndReport(session, "Session Crashed/Exited", "Process terminated")
          ELSE IF /\ session.started_at # NoTime
                  /\ mon.now - session.started_at < EarlyWindow
                  /\ session.pid \notin mon.sys
          THEN MonMarkAndReport(session, "Session Failed Early",
                                "Process exited shortly after start")
          ELSE MonSkip
    /\ UNCHANGED <<sessions, monitored_sessions, lock, shutdown_channel, procs, owner,
                   signalled, spawned, now, ticks, ui>>

\* Prune without the first retain: only the entries that lack a pid leave.
PruneKeepCrashed(monitored, crashed_sessions) ==
    SelectSeq(monitored, LAMBDA s : s.pid # None)

\* process.rs 135-142: the pruning step, under the lock.
Prune(monitored, crashed_sessions) ==
    LET kept == IF crashed_sessions # <<>>
                THEN SelectSeq(monitored, LAMBDA s : s.id \notin SeqRange(crashed_sessions))
                ELSE monitored
    IN SelectSeq(kept, LAMBDA s : s.pid # None)

\* MonPrune that clears the registry's pid of every id it prunes as crashed.
MonPruneClearsPid ==
    /\ mon.pc = "check"
    /\ mon.snapshot = <<>>
    /\ lock = "free"
    /\ monitored_sessions' = Prune(monitored_sessions, mon.crashed)
    /\ sessions' = [i \in Ids |-> IF i \in SeqRange(mon.crashed)
                                  THEN [sessions[i] EXCEPT !.pid = None]
                                  ELSE sessions[i]]
    /\ mon' = [mon EXCEPT !.pc = "wait", !.sys = {}, !.now = 0]
    /\ UNCHANGED <<lock, update_channel, shutdown_channel, logs, procs, owner,
                   signalled, spawned, now, ticks, ui, reported>>

MonPrune ==
    /\ mon.pc = "check"
    /\ mon.snapshot = <<>>
    /\ lock = "free"
    /\ monitored_sessions' = Prune(monitored_sessions, mon.crashed)
    /\ mon' = [mon EXCEPT !.pc = "wait", !.sys = {}, !.now = 0]
    /\ UNCHANGED <<sessions, lock, update_channel, shutdown_channel, logs, procs, owner,
                   signalled, spawned, now, ticks, ui, reported>>

\* recv_timeout that never sees the signal.
recv_timeout_deaf(signals, disconnected) == "Timeout"

\* process.rs 145: what recv_timeout returns: a signal that is queued, the
\* disconnection when every sender is gone, the timeout otherwise.
recv_timeout(signals, disconnected) ==
    IF signals > 0 THEN "Ok"
    ELSE IF disconnected THEN "Disconnected"
    ELSE "Timeout"

\* The StatusMonitor, which owns the sender of the shutdown channel, is gone.
SenderDropped == ui.pc = "done"

\* process.rs 145-148: recv_timeout times out and the loop starts its next cycle.
MonTimeout ==
    /\ mon.pc = "wait"
    /\ recv_timeout(shutdown_channel, SenderDropped) = "Timeout"
    /\ mon' = MonIdle("snapshot")
    /\ UNCHANGED <<sessions, monitored_sessions, lock, update_channel, shutdown_channel,
                   logs, procs, owner, signalled, spawned, now, ticks, ui, reported>>

\* process.rs 145-146: a signal or the disconnection ends the loop, the thread
\* with it, and the receiver of the shutdown channel with the thread.
MonShutdown ==
    /\ mon.pc = "wait"
    /\ recv_timeout(shutdown_channel, SenderDropped) \in {"Ok", "Disconnected"}
    /\ mon' = MonIdle("exited")
    /\ shutdown_channel' = 0
    /\ UNCHANGED <<sessions, monitored_sessions, lock, update_channel, logs, procs,
                   owner, signalled, spawned, now, ticks, ui, reported>>

\* -------------------------------------------------------- the environment
\* A child exits: of itself, or because of a signal it was sent.
ProcExit(p) ==
    /\ p \in procs
    /\ procs' = procs \ {p}
    /\ signalled' = signalled \ {p}
    /\ UNCHANGED <<sessions, monitored_sessions, lock, update_channel, shutdown_channel,
                   logs, owner, spawned, now, ticks, mon, ui, reported>>

\* process.rs 256-257: a child writes to the log of its session through its
\* redirected stdout and stderr.
ChildWrite(p) ==
    /\ p \in procs
    /\ owner[p] # 0
    /\ logs[owner[p]] # Output
    /\ logs' = [logs EXCEPT ![owner[p]] = append_log(@, Output, "written")]
    /\ UNCHANGED <<sessions, monitored_sessions, lock, update_channel, shutdown_channel,
                   procs, owner, signalled, spawned, now, ticks, mon, ui, reported>>

\* The clock advances by a whole early-verification window.
Tick ==
    /\ ticks < MaxTicks
    /\ now' = now + EarlyWindow
    /\ ticks' = ticks + 1
    /\ UNCHANGED <<sessions, monitored_sessions, lock, update_channel, shutdown_channel,
                   logs, procs, owner, signalled, spawned, mon, ui, reported>>

\* --------------------------------------------------- the interactive thread
\* ui/mod.rs 35-41 with process.rs 218-228: the tracking set is replaced by one
\* entry per session of the registry file, in the file's order.
RECURSIVE SyncFrom(_, _)
SyncFrom(list, i) ==
    IF i \notin Ids THEN <<>>
    ELSE (IF list[i].present
          THEN <<MonitoredSession(i, list[i].pid, list[i].last_started)>>
          ELSE <<>>) \o SyncFrom(list, i + 1)

sync_monitored_sessions ==
    /\ ui.pc = "init"
    /\ lock = "free"
    /\ monitored_sessions' = SyncFrom(sessions, 1)
    /\ ui' = Idle
    /\ UNCHANGED <<sessions, lock, update_channel, shutdown_channel, logs, procs, owner,
                   signalled, spawned, now, ticks, mon, reported>>

\* ApplyUpdate without the search for the session in the list.
ApplyUpdateUnsought(list, update) ==
    [list EXCEPT ![update.session_id].status = update.status,
                 ![update.session_id].msg = update.msg,
                 ![update.session_id].pid = update.pid]

\* ApplyUpdate without the assignment of the pid.
ApplyUpdateKeepPid(list, update) ==
    IF list[update.session_id].present
    THEN [list EXCEPT ![update.session_id].status = update.status,
                      ![update.session_id].msg = update.msg]
    ELSE list

\* process.rs 233-237: one received update, applied to the session it names.
ApplyUpdate(list, update) ==
    IF list[update.session_id].present
    THEN [list EXCEPT ![update.session_id].status = update.status,
                      ![update.session_id].msg = update.msg,
                      ![update.session_id].pid = update.pid]
    ELSE list

\* ApplyUpdates from the newest update to the oldest.
RECURSIVE ApplyUpdatesNewestFirst(_, _)
ApplyUpdatesNewestFirst(list, queue) ==
    IF queue = <<>> THEN list
    ELSE ApplyUpdatesNewestFirst(ApplyUpdate(list, queue[Len(queue)]),
                                 SubSeq(queue, 1, Len(queue) - 1))

\* process.rs 232-238: the loop of try_recv, from the oldest update to the newest.
RECURSIVE ApplyUpdates(_, _)
ApplyUpdates(list, queue) ==
    IF queue = <<>> THEN list
    ELSE ApplyUpdates(ApplyUpdate(list, Head(queue)), Tail(queue))

\* Updated without the search for the session: true for any update received.
UpdatedOnReceive(list, queue) == queue # <<>>

\* process.rs 231-239: the flag the drain returns, set where an update is
\* assigned to the session it names.
Updated(list, queue) == \E k \in DOMAIN queue : list[queue[k].session_id].present

\* main.rs 42-50 with process.rs 230-240: the drain that ends every turn of the
\* event loop, with or without a key event before it. try_recv never waits: the
\* drain takes what is queued, be it nothing, and returns the flag.
poll_status_updates ==
    /\ ui.pc \in {"idle", "poll"}
    /\ sessions' = ApplyUpdates(sessions, update_channel)
    /\ update_channel' = <<>>
    /\ ui' = [Idle EXCEPT !.ret = IF Updated(sessions, update_channel)
                                  THEN "poll true" ELSE "poll false"]
    /\ UNCHANGED <<monitored_sessions, lock, shutdown_channel, logs, procs, owner,
                   signalled, spawned, now, ticks, mon, reported>>

\* Where the handler goes when stop_session has returned: on to start_session
\* in a restart, back to the event loop otherwise.
AfterStop(i, restart, result) ==
    IF restart THEN [pc |-> "start", id |-> i, restart |-> TRUE, pid |-> None,
                     ret |-> result]
    ELSE Polling(i, result)

\* StopKill with the marker appended whether the session has a pid or not.
StopKillMarksAlways(i, restart) ==
    LET pid == sessions[i].pid
        next == [pc |-> "stop_untrack", id |-> i, restart |-> restart, pid |-> pid,
                 ret |-> ""]
    IN \E killRan \in BOOLEAN, appendOk \in AppendOutcomes :
          IF killRan \/ pid = None
          THEN /\ signalled' = signalled \cup ({pid} \cap procs)
               /\ logs' = [logs EXCEPT ![i] =
                     append_log(@, Separator("Session Stopped", pid), appendOk)]
               /\ ui' = next
          ELSE /\ ui' = AfterStop(i, restart, "stop Err")
               /\ UNCHANGED <<signalled, logs>>

\* process.rs 292-315: the kill command and the "Session Stopped" marker, when
\* the session has a pid. A command that cannot be run is an Err the '?'
\* returns at once; a command that ran has sent the signal, whatever became of
\* the child. The Result of the append is dropped.
StopKill(i, restart) ==
    LET pid == sessions[i].pid
        next == [pc |-> "stop_untrack", id |-> i, restart |-> restart, pid |-> pid,
                 ret |-> ""]
    IN IF pid = None
       THEN /\ ui' = next
            /\ UNCHANGED <<signalled, logs>>
       ELSE \E killRan \in BOOLEAN, appendOk \in AppendOutcomes :
               IF killRan
               THEN /\ signalled' = signalled \cup ({pid} \cap procs)
                    /\ logs' = [logs EXCEPT ![i] =
                          append_log(@, Separator("Session Stopped", pid), appendOk)]
                    /\ ui' = next
               ELSE /\ ui' = AfterStop(i, restart, "stop Err")
                    /\ UNCHANGED <<signalled, logs>>

\* process.rs 317-324: status and pid, then the entry leaves the tracking set
\* under the lock.
StopUntrack ==
    /\ ui.pc = "stop_untrack"
    /\ lock = "free"
    /\ sessions' = [sessions EXCEPT ![ui.id].status = "Stopped",
                                    ![ui.id].msg = "",
                                    ![ui.id].pid = None]
    /\ monitored_sessions' = SelectSeq(monitored_sessions, LAMBDA s : s.id # ui.id)
    /\ ui' = AfterStop(ui.id, ui.restart, "stop Ok")
    /\ UNCHANGED <<lock, update_channel, shutdown_channel, logs, procs, owner, signalled,
                   spawned, now, ticks, mon, reported>>

\* StartSpawn with last_started assigned where started_at is taken, before the
\* open and the spawn that may fail.
StartSpawnEarlyAssign(i) ==
    \E outcome \in {"open failed", "spawn failed", "spawned"}, appendOk \in AppendOutcomes :
       IF outcome = "spawned"
       THEN /\ spawned < MaxSpawn
            /\ LET pid == NumSessions + spawned + 1
               IN /\ procs' = procs \cup {pid}
                  /\ owner' = [owner EXCEPT ![pid] = i]
                  /\ sessions' = [sessions EXCEPT ![i].pid = pid,
                                                  ![i].status = "Running",
                                                  ![i].msg = "",
                                                  ![i].last_started = now]
                  /\ logs' = [logs EXCEPT ![i] =
                        append_log(@, Separator("Session Started", pid), appendOk)]
                  /\ ui' = [pc |-> "start_track", id |-> i, restart |-> FALSE,
                            pid |-> pid, ret |-> ""]
            /\ spawned' = spawned + 1
       ELSE /\ ui' = Polling(i, "start Err")
            /\ sessions' = [sessions EXCEPT ![i].last_started = now]
            /\ UNCHANGED <<procs, owner, spawned, logs>>

\* process.rs 243-273: started_at, the log file opened, the child spawned, the
\* session's fields set and the "Session Started" marker appended (its Result
\* dropped); an open or a spawn that fails returns before any assignment.
StartSpawn(i) ==
    \E outcome \in {"open failed", "spawn failed", "spawned"}, appendOk \in AppendOutcomes :
       IF outcome = "spawned"
       THEN /\ spawned < MaxSpawn
            /\ LET pid == NumSessions + spawned + 1
               IN /\ procs' = procs \cup {pid}
                  /\ owner' = [owner EXCEPT ![pid] = i]
                  /\ sessions' = [sessions EXCEPT ![i].pid = pid,
                                                  ![i].status = "Running",
                                                  ![i].msg = "",
                                                  ![i].last_started = now]
                  /\ logs' = [logs EXCEPT ![i] =
                        append_log(@, Separator("Session Started", pid), appendOk)]
                  /\ ui' = [pc |-> "start_track", id |-> i, restart |-> FALSE,
                            pid |-> pid, ret |-> ""]
            /\ spawned' = spawned + 1
       ELSE /\ ui' = Polling(i, "start Err")
            /\ UNCHANGED <<sessions, procs, owner, spawned, logs>>

\* Upsert that looks for the entry by its pid, not by its id.
UpsertByPid(monitored, i, pid, started_at) ==
    IF \E k \in DOMAIN monitored : monitored[k].pid = pid
    THEN LET first == CHOOSE k \in DOMAIN monitored :
                         /\ monitored[k].pid = pid
                         /\ \A j \in 1..(k - 1) : monitored[j].pid # pid
         IN [monitored EXCEPT ![first].id = i, ![first].started_at = started_at]
    ELSE Append(monitored, MonitoredSession(i, pid, started_at))

\* Upsert without the search for an existing entry: always a push.
UpsertPush(monitored, i, pid, started_at) ==
    Append(monitored, MonitoredSession(i, pid, started_at))

\* process.rs 275-286: the upsert, under the lock.
Upsert(monitored, i, pid, started_at) ==
    IF \E k \in DOMAIN monitored : monitored[k].id = i
    THEN LET first == CHOOSE k \in DOMAIN monitored :
                         /\ monitored[k].id = i
                         /\ \A j \in 1..(k - 1) : monitored[j].id # i
         IN [monitored EXCEPT ![first].pid = pid, ![first].started_at = started_at]
    ELSE Append(monitored, MonitoredSession(i, pid, started_at))

StartTrack ==
    /\ ui.pc = "start_track"
    /\ lock = "free"
    /\ monitored_sessions' = Upsert(monitored_sessions, ui.id, ui.pid,
                                    sessions[ui.id].last_started)
    /\ ui' = Polling(ui.id, "start Ok")
    /\ reported' = reported \ {ui.id}
    /\ UNCHANGED <<sessions, lock, update_channel, shutdown_channel, logs, procs, owner,
                   signalled, spawned, now, ticks, mon>>

\* main.rs 536-552: 's' stops a Running session and starts any other.
toggle_session(i) ==
    /\ ui.pc = "idle"
    /\ sessions[i].present
    /\ IF sessions[i].status = "Running"
       THEN /\ StopKill(i, FALSE)
            /\ UNCHANGED <<sessions, procs, owner, spawned, reported>>
       ELSE /\ StartSpawn(i)
            /\ UNCHANGED <<signalled, reported>>
    /\ UNCHANGED <<monitored_sessions, lock, update_channel, shutdown_channel, now,
                   ticks, mon>>

\* main.rs 154-162: 'r' stops the session, then starts it, dropping both Results.
restart_session(i) ==
    /\ ui.pc = "idle"
    /\ sessions[i].present
    /\ StopKill(i, TRUE)
    /\ UNCHANGED <<sessions, monitored_sessions, lock, update_channel, shutdown_channel,
                   procs, owner, spawned, now, ticks, mon, reported>>

RestartStart ==
    /\ ui.pc = "start"
    /\ StartSpawn(ui.id)
    /\ UNCHANGED <<monitored_sessions, lock, update_channel, shutdown_channel, signalled,
                   now, ticks, mon, reported>>

\* main.rs 521-530: the session leaves the registry; nothing else is touched.
confirm_delete(i) ==
    /\ ui.pc = "idle"
    /\ sessions[i].present
    /\ sessions' = [sessions EXCEPT ![i] = NoSession]
    /\ ui' = Polling(i, "")
    /\ UNCHANGED <<monitored_sessions, lock, update_channel, shutdown_channel, logs,
                   procs, owner, signalled, spawned, now, ticks, mon, reported>>

\* ---------------------------------------------------------------- teardown
\* process.rs 176 and 185: the shutdown signal, whose Result is dropped; the
\* send fails once the monitor thread, which owns the receiver, has ended.
shutdown_send(signals, monitorExited) ==
    IF monitorExited THEN signals ELSE signals + 1

\* main.rs 37-58 and 584-586 with process.rs 183-197: 'q' ends the event loop
\* after the drain of its turn and the App is dropped: the ProcessManager drops
\* its fields in their order, the receiver of the update channel before the
\* StatusMonitor, whose Drop sends the signal and goes on to join the thread.
quit ==
    /\ ui.pc = "idle"
    /\ sessions' = ApplyUpdates(sessions, update_channel)
    /\ update_channel' = <<>>
    /\ shutdown_channel' = shutdown_send(shutdown_channel, MonExited)
    /\ ui' = TearingDown("drop_join")
    /\ UNCHANGED <<monitored_sessions, lock, logs, procs, owner, signalled, spawned,
                   now, ticks, mon, reported>>

\* process.rs 186-188: handle.join() returns when the monitor thread has ended,
\* with an Err that is dropped when it ended in a panic.
DropJoin ==
    /\ ui.pc = "drop_join"
    /\ MonExited
    /\ ui' = TearingDown("done")
    /\ UNCHANGED <<sessions, monitored_sessions, lock, update_channel, shutdown_channel,
                   logs, procs, owner, signalled, spawned, now, ticks, mon, reported>>

\* process.rs 175-177: StatusMonitor::shutdown sends the signal and goes on to
\* join the thread.
shutdown ==
    /\ ui.pc = "idle"
    /\ shutdown_channel' = shutdown_send(shutdown_channel, MonExited)
    /\ ui' = TearingDown("shutdown_join")
    /\ UNCHANGED <<sessions, monitored_sessions, lock, update_channel, logs, procs,
                   owner, signalled, spawned, now, ticks, mon, reported>>

\* process.rs 177-180: the handle is taken and joined; shutdown returns and its
\* self goes out of scope, which runs Drop.
ShutdownJoin ==
    /\ ui.pc = "shutdown_join"
    /\ MonExited
    /\ ui' = TearingDown("dropping")
    /\ UNCHANGED <<sessions, monitored_sessions, lock, update_channel, shutdown_channel,
                   logs, procs, owner, signalled, spawned, now, ticks, mon, reported>>

\* DropAfterShutdown with the Result of the send unwrapped: the Drop panics
\* where the send fails.
DropAfterShutdownUnwraps ==
    /\ ui.pc = "dropping"
    /\ shutdown_channel' = shutdown_send(shutdown_channel, MonExited)
    /\ ui' = TearingDown(IF MonExited THEN "failed" ELSE "done")
    /\ UNCHANGED <<sessions, monitored_sessions, lock, update_channel, logs, procs,
                   owner, signalled, spawned, now, ticks, mon, reported>>

\* process.rs 183-190 after shutdown: the send fails, its Result is dropped, and
\* no handle is left to join.
DropAfterShutdown ==
    /\ ui.pc = "dropping"
    /\ shutdown_channel' = shutdown_send(shutdown_channel, MonExited)
    /\ ui' = TearingDown("done")
    /\ UNCHANGED <<sessions, monitored_sessions, lock, update_channel, logs, procs,
                   owner, signalled, spawned, now, ticks, mon, reported>>

\* ------------------------------------------------------------ specification
MonNext ==
    \/ MonSnapshot
    \/ MonCheck
    \/ MonPrune
    \/ MonTimeout
    \/ MonShutdown

Next ==
    \/ MonNext
    \/ sync_monitored_sessions
    \/ poll_status_updates
    \/ \E i \in Ids : toggle_session(i)
    \/ \E i \in Ids : restart_session(i)
    \/ RestartStart
    \/ \E i \in Ids : confirm_delete(i)
    \/ StopUntrack
    \/ StartTrack
    \/ quit
    \/ DropJoin
    \/ shutdown
    \/ ShutdownJoin
    \/ DropAfterShutdown
    \/ \E p \in Pids : ProcExit(p)
    \/ \E p \in Pids : ChildWrite(p)
    \/ Tick

Spec == Init /\ [][Next]_vars

\* The steps the interactive thread takes of itself: the handler it is in runs
\* on, the event loop drains once a second (main.rs 75), and a join returns
\* when the thread it waits for has ended.
UiNext ==
    \/ sync_monitored_sessions
    \/ poll_status_updates
    \/ RestartStart
    \/ StopUntrack
    \/ StartTrack
    \/ DropJoin
    \/ ShutdownJoin
    \/ DropAfterShutdown

\* Both threads are scheduled: neither stays for ever before a step it can
\* take. The keys the user presses, the children and the clock are free.
FairSpec == Spec /\ WF_vars(MonNext) /\ WF_vars(UiNext)

\* ------------------------------------------------------------------ steps
\* The steps of the interactive thread in which a ProcessManager call returns.
StopErrReturns(i) == ui.pc = "idle" /\ ui'.ret = "stop Err" /\ ui'.id = i
StopOkReturns(i) == ui.pc = "stop_untrack" /\ ui'.ret = "stop Ok" /\ ui'.id = i
StartErrReturns(i) == ui.pc \in {"idle", "start"} /\ ui'.ret = "start Err" /\ ui'.id = i
StartOkReturns(i) == ui.pc = "start_track" /\ ui'.ret = "start Ok" /\ ui'.id = i
PollReturns ==
    /\ ui.pc \in {"idle", "poll"}
    /\ ui'.pc = "idle"
    /\ update_channel' = <<>>
    /\ UNCHANGED <<mon, procs, ticks, logs>>

\* The step of the monitor that finds its next snapshot entry dead: the pid is
\* absent from the process table the cycle read.
MonFindsDead ==
    /\ mon.pc = "check"
    /\ mon.snapshot # <<>>
    /\ Head(mon.snapshot).pid # None
    /\ Head(mon.snapshot).pid \notin mon.sys
    /\ mon' # mon

\* An update for session i is sent in this step.
Sends(i) ==
    /\ Len(update_channel') = Len(update_channel) + 1
    /\ update_channel'[Len(update_channel')].session_id = i

\* The pruning step of the monitor.
MonPrunes == mon.pc = "check" /\ mon.snapshot = <<>> /\ mon'.pc = "wait"

\* ------------------------------------------------------------------ claims

\* C1: stop_session on a session that is Running with a pid always ends with
\* the session Stopped, its pid None and no tracking entry for its id, whether
\* the kill command could be run (Ok) or not (Err returned).
C1_StopAlwaysStops ==
    [][\A i \in Ids :
          (\/ StopErrReturns(i) /\ sessions[i].pid # None
           \/ StopOkReturns(i) /\ ui.pid # None)
          => /\ sessions'[i].status = "Stopped"
             /\ sessions'[i].pid = None
             /\ EntriesOf(monitored_sessions', i) = {}]_vars

\* C2: a start_session that returns Err leaves the registry (status, pid and
\* last_started of the session among it) and the tracking set as they were.
C2_FailedStartChangesNothing ==
    [][\A i \in Ids :
          StartErrReturns(i)
          => /\ sessions' = sessions
             /\ monitored_sessions' = monitored_sessions]_vars

\* A start_session has failed on a session whose status was Error.
C2_Witness ==
    /\ ui.pc = "poll"
    /\ ui.ret = "start Err"
    /\ sessions[ui.id].status = "Error"
    /\ sessions[ui.id].last_started # NoTime

\* C3: once the monitor has sent the crash update for id X, it sends no other
\* update for X unless a start_session of X has returned Ok in between.
C3_AtMostOneCrashUpdate ==
    [][\A i \in Ids : Sends(i) => i \notin reported]_vars

\* An update was sent for session 1 by an earlier cycle, and the present cycle
\* has gone through its whole snapshot without reporting anything.
C3_Witness ==
    /\ 1 \in reported
    /\ mon.pc = "check"
    /\ mon.snapshot = <<>>
    /\ mon.crashed = <<>>

\* C4: the interactive thread can never be about to take the tracking-set lock,
\* with the lock free, while the update for X is queued by the running cycle
\* and X's entry is still in the tracking set.
C4_QueueAndUntrackAtomic ==
    \A i \in Ids :
       ~ /\ mon.pc = "check"
         /\ i \in SeqRange(mon.crashed)
         /\ Tracked(i)
         /\ ui.pc \in {"init", "stop_untrack", "start_track"}

\* C5: every session of the registry is Running if and only if it has a pid,
\* in every state, those right after a drain among them.
C5_RunningIffPid ==
    \A i \in Ids :
       sessions[i].present => (sessions[i].status = "Running" <=> sessions[i].pid # None)

\* A drain has just applied a crash update to session 1.
C5_Witness ==
    /\ ui.pc = "idle"
    /\ 1 \in reported
    /\ sessions[1].status = "Error"
    /\ sessions[1].pid = None

\* C6: with both threads at rest and no update waiting, the tracking set holds
\* an entry for id X if and only if the registry holds a session X that is
\* Running with a pid.
C6_TrackedIffRunning ==
    (ui.pc = "idle" /\ mon.pc = "wait" /\ update_channel = <<>>)
    => \A i \in Ids :
          Tracked(i) <=> /\ sessions[i].present
                         /\ sessions[i].status = "Running"
                         /\ sessions[i].pid # None

\* C7: when the monitor reports the death of a process less than EarlyWindow
\* seconds after its start, the marker it appends is "Session Failed Early".
C7_EarlyDeathIsFailedEarly ==
    [][LET e == Head(mon.snapshot)
       IN (/\ MonFindsDead
           /\ e.started_at # NoTime
           /\ mon.now - e.started_at < EarlyWindow
           /\ logs'[e.id].pid = e.pid
           /\ logs'[e.id].kind \in {"Session Crashed/Exited", "Session Failed Early"})
          => logs'[e.id].kind = "Session Failed Early"]_vars

\* The log of a dead entry after the step that reports it: the marker appended
\* to it, or what a failed append (its Result is dropped) leaves of it, and
\* after either what a live child of the session may have written since.
MarkedLogs(log, marker) ==
    LET marked == {append_log(log, marker, outcome) : outcome \in AppendOutcomes}
    IN marked \cup {append_log(l, Output, "written") : l \in marked}

\* C8: for every snapshot entry whose pid is absent from the process table the
\* "Session Crashed/Exited" marker with that pid is appended to its log (a
\* failed write of it being ignored), exactly one Error update with pid None is
\* sent for its id (and queued while the manager holds the receiver), the id is
\* marked, and no marked id is in the tracking set when the pruning step
\* completes.
C8_DeadEntryMarkedReportedPruned ==
    [][/\ LET e == Head(mon.snapshot)
          IN MonFindsDead
             => /\ logs'[e.id] \in MarkedLogs(logs[e.id],
                                               Separator("Session Crashed/Exited", e.pid))
                /\ ReceiverDropped \/ Sends(e.id)
                /\ update_channel' # <<>>
                   => /\ update_channel'[Len(update_channel')].status = "Error"
                      /\ update_channel'[Len(update_channel')].pid = None
                /\ SubSeq(update_channel', 1, Len(update_channel)) = update_channel
                /\ mon'.crashed = Append(mon.crashed, e.id)
       /\ MonPrunes
          => \A i \in SeqRange(mon.crashed) : EntriesOf(monitored_sessions', i) = {}]_vars

\* C9: a session that is Stopped (stop_session has returned Ok and the session
\* was not started since) is left as it is by every drain.
C9_DrainLeavesStopped ==
    [][PollReturns
       => \A i \in Ids :
             (sessions[i].present /\ sessions[i].status = "Stopped")
             => sessions'[i] = sessions[i]]_vars

\* C10: when start_session returns Ok the session is Running with the pid of
\* the child just spawned and with last_started set, and the tracking set holds
\* exactly one entry for its id, with that pid and that start time.
C10_StartedAndTrackedOnce ==
    [][\A i \in Ids :
          StartOkReturns(i)
          => /\ sessions'[i].status = "Running"
             /\ sessions'[i].pid = NumSessions + spawned
             /\ sessions'[i].last_started # NoTime
             /\ \E k \in DOMAIN monitored_sessions' :
                   /\ EntriesOf(monitored_sessions', i) = {k}
                   /\ monitored_sessions'[k].pid = sessions'[i].pid
                   /\ monitored_sessions'[k].started_at = sessions'[i].last_started]_vars

\* start_session has returned Ok for a session that was already tracked.
C10_Witness ==
    /\ ui.pc = "poll"
    /\ ui.ret = "start Ok"
    /\ sessions[ui.id].status = "Running"
    /\ Len(monitored_sessions) = 1
    /\ monitored_sessions[1] =
          MonitoredSession(ui.id, sessions[ui.id].pid, sessions[ui.id].last_started)

\* The step in which sync_monitored_sessions runs, from its lock to its return.
SyncReturns == ui.pc = "init" /\ ui'.pc = "idle"

\* C11: after sync_monitored_sessions the tracking set holds the entry
\* (id, P, T) of every session of the list that is Running with pid P and
\* last_started T, and nothing else: no entry for a session that is not
\* Running; and no process is spawned.
C11_SyncTracksExactlyRunning ==
    [][SyncReturns
       => /\ SeqRange(monitored_sessions') =
                {MonitoredSession(i, sessions[i].pid, sessions[i].last_started) :
                    i \in {j \in Ids : /\ sessions[j].present
                                       /\ sessions[j].status = "Running"
                                       /\ sessions[j].pid # None}}
          /\ spawned' = spawned
          /\ procs' = procs]_vars

\* The step in which poll_status_updates runs, from its call to its return.
\* The monitor, the children and the clock are the only others to take steps.
Drains ==
    /\ ui.pc \in {"idle", "poll"}
    /\ ui'.pc = "idle"
    /\ UNCHANGED <<mon, procs, ticks, logs>>

\* The updates of a queue that name session i, in the queue's order.
UpdatesFor(queue, i) == SelectSeq(queue, LAMBDA u : u.session_id = i)

\* C12: poll_status_updates is never made to wait (it runs with an empty queue
\* as with a full one), leaves no update that was queued at its call in the
\* queue, gives every session of the list that an update names the status and
\* the pid of an update that names it and leaves the other sessions alone, and
\* returns true if and only if an update was assigned to a session of the list.
C12_DrainAppliesAllAndReports ==
    [][Drains
       => /\ update_channel' = <<>>
          /\ \A i \in Ids :
                LET ups == UpdatesFor(update_channel, i)
                IN IF sessions[i].present /\ ups # <<>>
                   THEN /\ \E k \in DOMAIN ups :
                              /\ sessions'[i].status = ups[k].status
                              /\ sessions'[i].msg = ups[k].msg
                              /\ sessions'[i].pid = ups[k].pid
                        /\ sessions'[i].last_started = sessions[i].last_started
                   ELSE sessions'[i] = sessions[i]
          /\ ui'.ret = "poll true"
             <=> \E i \in Ids : sessions[i].present /\ UpdatesFor(update_channel, i) # <<>>]_vars

\* A drain has returned false although it received an update: the update named
\* a session that had left the registry.
C12_Witness ==
    /\ ui.pc = "idle"
    /\ ui.ret = "poll false"
    /\ 1 \in reported
    /\ ~sessions[1].present
    /\ update_channel = <<>>
    /\ ~Tracked(1)

\* The process of session i has died with the session Running and tracked.
DiedTracked(i) ==
    /\ sessions[i].present
    /\ sessions[i].status = "Running"
    /\ sessions[i].pid # None
    /\ sessions[i].pid \notin procs
    /\ \E k \in EntriesOf(monitored_sessions, i) :
          monitored_sessions[k].pid = sessions[i].pid

\* What takes a session out of C13: a stop_session issued for it, its deletion,
\* a monitor thread that has ended, an interactive thread that has left its
\* event loop.
Excused(i) ==
    \/ ui.id = i /\ (ui.pc = "stop_untrack" \/ ui.ret \in {"stop Ok", "stop Err"})
    \/ ~sessions[i].present
    \/ MonExited
    \/ ui.pc \in {"drop_join", "shutdown_join", "dropping", "done"}

\* C13: when the process of a tracked session has died, then, with both threads
\* scheduled, the session comes to have an Error status and no pid, and its id
\* comes to be absent from the tracking set, unless a stop_session is issued
\* for it first.
C13_DeathIsReported ==
    \A i \in Ids :
       /\ DiedTracked(i)
          ~> (Excused(i) \/ (sessions[i].status = "Error" /\ sessions[i].pid = None))
       /\ DiedTracked(i) ~> (Excused(i) \/ ~Tracked(i))

\* C14: teardown, be it StatusMonitor::shutdown or the drop of the manager,
\* returns only when the monitor thread has ended, and, the threads being
\* scheduled, it does return, whatever step of its cycle the monitor is at when
\* the signal is sent.
C14_TeardownJoinsMonitor ==
    /\ [](ui.pc \in {"dropping", "done"} => MonExited)
    /\ (ui.pc \in {"drop_join", "shutdown_join"}) ~> (ui.pc = "done")

\* The manager was dropped while the monitor was reporting a death, and the
\* teardown has returned with the monitor's loop ended by the signal.
C14_Witness ==
    /\ ui.pc = "done"
    /\ mon.pc = "exited"
    /\ shutdown_channel = 0
    /\ 1 \in reported
    /\ update_channel = <<>>
    /\ sessions[1].status = "Running"

\* C15: from the construction of the manager until its teardown signals the
\* monitor, the monitor thread it created is alive: the thread has not ended
\* before the interactive thread has begun the teardown.
C15_MonitorLivesUntilTeardown ==
    MonExited => ui.pc \in {"drop_join", "shutdown_join", "dropping", "done"}

\* C16: the monitor thread leaves its loop only at the wait of the cycle, and
\* only when recv_timeout returns a signal or the disconnection; a wait that
\* times out starts the next cycle.
C16_LoopEndsOnlyAtWait ==
    [][/\ (~MonExited /\ MonExited')
          => /\ mon.pc = "wait"
             /\ recv_timeout(shutdown_channel, SenderDropped) \in {"Ok", "Disconnected"}
       /\ (mon.pc = "wait" /\ mon' # mon
              /\ recv_timeout(shutdown_channel, SenderDropped) = "Timeout")
          => mon'.pc = "snapshot"]_vars

C18_UpdatesAppliedInOrder ==
    [][/\ Len(update_channel') > Len(update_channel)
          => SubSeq(update_channel', 1, Len(update_channel)) = update_channel
       /\ Drains
          => \A i \in Ids :
                LET ups == UpdatesFor(update_channel, i)
                IN (sessions[i].present /\ ups # <<>>)
                   => /\ sessions'[i].status = ups[Len(ups)].status
                      /\ sessions'[i].msg = ups[Len(ups)].msg
                      /\ sessions'[i].pid = ups[Len(ups)].pid]_vars

\* Two updates with different diagnostics are queued for session 1, which is
\* in the registry, and the event loop is about to drain them.
C18_Witness ==
    /\ ui.pc = "poll"
    /\ sessions[1].present
    /\ Len(update_channel) = 2
    /\ update_channel[1].session_id = 1
    /\ update_channel[2].session_id = 1
    /\ update_channel[1].msg # update_channel[2].msg

\* C19: when the log read for a dead entry is empty, the diagnostic of its
\* update is "Process terminated" ("Process exited shortly after start" inside
\* the early-verification window).
C19_EmptyLogGivesFallback ==
    [][LET e == Head(mon.snapshot)
       IN (MonFindsDead /\ logs'[e.id] = EmptyLog /\ Sends(e.id))
          => update_channel'[Len(update_channel')].msg
                \in {"Process terminated", "Process exited shortly after start"}]_vars

\* C20: when the monitor finds dead the child that start_session spawned for X
\* in this run, a child that wrote nothing to the log, it queues the update
\* (X, Error("Process terminated"), None), and X is not tracked when the cycle
\* has pruned.
C20_KilledChildIsProcessTerminated ==
    [][/\ LET e == Head(mon.snapshot)
          IN (/\ MonFindsDead
              /\ e.pid > NumSessions
              /\ logs[e.id] # Output
              /\ logs'[e.id] # Output
              /\ ~ReceiverDropped)
             => /\ Sends(e.id)
                /\ update_channel'[Len(update_channel')] =
                      StatusUpdate(e.id, "Process terminated")
       /\ MonPrunes
          => \A i \in SeqRange(mon.crashed) : EntriesOf(monitored_sessions', i) = {}]_vars

\* The step of start_session in which the child is spawned and the "Session
\* Started" marker appended; the call goes on to its upsert and returns Ok.
StartAppends(i) ==
    /\ ui.pc \in {"idle", "start"}
    /\ ui'.pc = "start_track"
    /\ ui'.id = i

\* The step of stop_session in which the kill command has run and the "Session
\* Stopped" marker is appended; the call goes on to untrack and returns Ok.
StopAppends(i) ==
    /\ ui.pc = "idle"
    /\ ui'.pc = "stop_untrack"
    /\ ui'.id = i
    /\ ui'.pid # None

\* C22: a log I/O failure in start_session or stop_session, be it the open of
\* the log file or the append of the "Session Started" or "Session Stopped"
\* marker, is returned as an Err: a call goes on towards its Ok only with its
\* marker written to the log.
C22_LogFailureIsReturned ==
    [][\A i \in Ids :
          /\ StartAppends(i)
             => logs'[i] = Separator("Session Started", ui'.pid)
          /\ StopAppends(i)
             => logs'[i] = Separator("Session Stopped", ui'.pid)]_vars

\* C26: the pruning step removes only the entries whose process the cycle found
\* dead and the entries that lack a pid: an entry that holds the pid of a live
\* process, be it one start_session wrote between the snapshot and the pruning
\* step, is still in the tracking set after the step.
C26_PruneKeepsLiveEntries ==
    [][MonPrunes
       => \A k \in DOMAIN monitored_sessions :
             (/\ monitored_sessions[k].pid # None
              /\ monitored_sessions[k].pid \in procs)
             => monitored_sessions[k] \in SeqRange(monitored_sessions')]_vars

\* C27: a drain never gives an Error status to a session that is Running with
\* the pid of a live process: an update queued for an earlier process of the
\* session does not reach the run that followed it.
C27_DrainSparesLiveRun ==
    [][Drains
       => \A i \in Ids :
             (/\ sessions[i].present
              /\ sessions[i].status = "Running"
              /\ sessions[i].pid # None
              /\ sessions[i].pid \in procs)
             => sessions'[i].status # "Error"]_vars

\* The children of session i that are alive and were sent no signal.
LiveChildren(i) == {p \in procs \ signalled : owner[p] = i}

\* C28: no session ever has two children alive of which neither was sent the
\* termination signal.
C28_OneLiveChildPerSession ==
    \A i \in Ids : Cardinality(LiveChildren(i)) <= 1

\* ------------------------------------------------- the commands of a session
\* The command start_session builds (process.rs 245-249), checked on the
\* sessions a registry file may hold: here a session carries the fields the
\* builders read, an Option being a sequence of no element or of one, and the
\* interactive thread holds the Command it has built where it goes on to spawn.
MaxOptions == 2         \* additional_options a session carries

Digit(d) ==
    CASE d = 0 -> "0" [] d = 1 -> "1" [] d = 2 -> "2" [] d = 3 -> "3" [] d = 4 -> "4"
      [] d = 5 -> "5" [] d = 6 -> "6" [] d = 7 -> "7" [] d = 8 -> "8" [] d = 9 -> "9"

\* Display of a u16 ("{}" and to_string): its decimal digits.
RECURSIVE to_string(_)
to_string(n) == IF n < 10 THEN Digit(n) ELSE to_string(n \div 10) \o Digit(n % 10)

unwrap_or(option, default) == IF option = <<>> THEN default ELSE option[1]

\* Command::new and Command::arg: the program and the arguments given so far.
Command(program) == [program |-> program, args |-> <<>>]
arg(cmd, a) == [cmd EXCEPT !.args = Append(@, a)]

\* The loop over additional_options that ends every builder.
RECURSIVE args(_, _)
args(cmd, options) ==
    IF options = <<>> THEN cmd ELSE args(arg(cmd, Head(options)), Tail(options))

\* build_ssh_command with "-N" given after the additional options.
build_ssh_command_N_last(session) ==
    arg(args(arg(arg(Command("ssh"), "-L"),
                 to_string(session.local_port) \o ":localhost:"
                    \o to_string(unwrap_or(session.remote_port, 0))),
             <<session.target>> \o session.additional_options),
        "-N")

\* process.rs 327-343
build_ssh_command(session) ==
    LET cmd == arg(arg(arg(arg(Command("ssh"), "-L"),
                           to_string(session.local_port) \o ":localhost:"
                              \o to_string(unwrap_or(session.remote_port, 0))),
                       session.target),
                   "-N")
    IN args(cmd, session.additional_options)

\* build_kubectl_command with the namespace given whether it is set or not.
build_kubectl_command_always_namespace(session) ==
    LET cmd == Command("kubectl")
        ctx == IF session.kube_context # <<>>
               THEN arg(arg(cmd, "--context"), session.kube_context[1])
               ELSE cmd
        ns == arg(arg(ctx, "--namespace"), unwrap_or(session.kube_namespace, ""))
        fwd == arg(arg(arg(ns, "port-forward"), session.target),
                   to_string(session.local_port) \o ":"
                      \o to_string(unwrap_or(session.remote_port, 0)))
    IN args(fwd, session.additional_options)

\* process.rs 345-369
build_kubectl_command(session) ==
    LET cmd == Command("kubectl")
        ctx == IF session.kube_context # <<>>
               THEN arg(arg(cmd, "--context"), session.kube_context[1])
               ELSE cmd
        ns == IF session.kube_namespace # <<>>
              THEN arg(arg(ctx, "--namespace"), session.kube_namespace[1])
              ELSE ctx
        fwd == arg(arg(arg(ns, "port-forward"), session.target),
                   to_string(session.local_port) \o ":"
                      \o to_string(unwrap_or(session.remote_port, 0)))
    IN args(fwd, session.additional_options)

\* build_socks5_command that forwards to the remote port as build_ssh_command does.
build_socks5_command_with_remote(session) ==
    LET cmd == arg(arg(arg(arg(Command("ssh"), "-D"),
                           to_string(session.local_port) \o ":"
                              \o to_string(unwrap_or(session.remote_port, 0))),
                       session.target),
                   "-N")
    IN args(cmd, session.additional_options)

\* process.rs 371-383
build_socks5_command(session) ==
    LET cmd == arg(arg(arg(arg(Command("ssh"), "-D"),
                           to_string(session.local_port)),
                       session.target),
                   "-N")
    IN args(cmd, session.additional_options)

\* The sequences over S of at most n elements.
SeqsUpTo(S, n) == UNION {[1..k -> S] : k \in 0..n}

\* models.rs 39-56: the sessions of a registry file, as far as the builders
\* read them. The session form gives a Socks5 session no remote port and every
\* other session one; a file written by hand may hold any of these.
CommandSessions ==
    {Stopped @@
        [session_type |-> t, target |-> tg, local_port |-> lp, remote_port |-> rp,
         additional_options |-> opts, kube_context |-> ctx, kube_namespace |-> ns] :
        t \in {"SSH", "Kubectl", "Socks5"},
        tg \in {"user@host", "svc/web"},
        lp \in {80, 8080},
        rp \in {<<>>, <<0>>, <<443>>, <<65535>>},
        opts \in SeqsUpTo({"-v", "-4"}, MaxOptions),
        ctx \in {<<>>, <<"prod">>},
        ns \in {<<>>, <<"default">>}}

\* The interactive thread in start_session for session i, the Command built.
Spawning(i, cmd) == [pc |-> "spawn", id |-> i, cmd |-> cmd]

\* The state at the first turn of the event loop, the registry file holding one
\* session: the manager is constructed and sync_monitored_sessions has run.
CommandInit ==
    /\ sessions \in [Ids -> CommandSessions \cup {NoSession}]
    /\ \A i \in Ids : sessions[i].present <=> i = 1
    /\ monitored_sessions = SyncFrom(sessions, 1)
    /\ lock = "free"
    /\ update_channel = <<>>
    /\ shutdown_channel = 0
    /\ logs = [i \in Ids |-> EmptyLog]
    /\ procs = {}
    /\ owner = [p \in Pids |-> 0]
    /\ signalled = {}
    /\ spawned = 0
    /\ now = 0
    /\ ticks = 0
    /\ mon = MonIdle("snapshot")
    /\ ui = Idle
    /\ reported = {}

\* process.rs 243-249: start_session picks the builder by the session's type.
BuildCommand(i) ==
    /\ ui.pc = "idle"
    /\ sessions[i].present
    /\ LET session == sessions[i]
           cmd == CASE session.session_type = "SSH" -> build_ssh_command(session)
                    [] session.session_type = "Kubectl" -> build_kubectl_command(session)
                    [] session.session_type = "Socks5" -> build_socks5_command(session)
       IN ui' = Spawning(i, cmd)
    /\ UNCHANGED <<sessions, monitored_sessions, lock, update_channel, shutdown_channel,
                   logs, procs, owner, signalled, spawned, now, ticks, mon, reported>>

CommandNext == \E i \in Ids : BuildCommand(i)

CommandSpec == CommandInit /\ [][CommandNext]_vars

\* The Command start_session has built for a session of type t.
Built(t) == ui.pc = "spawn" /\ sessions[ui.id].session_type = t

\* "<local>:<remote>" of a session, 0 standing for a remote port that is not set.
PortPair(session, between) ==
    to_string(session.local_port) \o between
       \o (IF session.remote_port = <<>> THEN "0" ELSE to_string(session.remote_port[1]))

\* C23: for a Kubectl session the command is kubectl with "--context <context>"
\* only if a context is set, "--namespace <namespace>" only if a namespace is
\* set, "port-forward", the target, "<local_port>:<remote_port>", then the
\* additional options in their order.
C23_KubectlCommand ==
    Built("Kubectl")
    => LET s == sessions[ui.id]
       IN /\ ui.cmd.program = "kubectl"
          /\ ui.cmd.args =
                (IF s.kube_context = <<>> THEN <<>> ELSE <<"--context", s.kube_context[1]>>)
                \o (IF s.kube_namespace = <<>> THEN <<>>
                    ELSE <<"--namespace", s.kube_namespace[1]>>)
                \o <<"port-forward", s.target, PortPair(s, ":")>>
                \o s.additional_options

\* A kubectl command was built for a session with a context, no namespace and
\* two additional options.
C23_Witness ==
    /\ Built("Kubectl")
    /\ sessions[ui.id].kube_context # <<>>
    /\ sessions[ui.id].kube_namespace = <<>>
    /\ Len(sessions[ui.id].additional_options) = 2
    /\ Len(ui.cmd.args) = 7

\* C24: for an SSH session the command is ssh with "-L",
\* "<local_port>:localhost:<remote_port>", the target, "-N", then the
\* additional options in their order.
C24_SshCommand ==
    Built("SSH")
    => LET s == sessions[ui.id]
       IN /\ ui.cmd.program = "ssh"
          /\ ui.cmd.args = <<"-L", PortPair(s, ":localhost:"), s.target, "-N">>
                              \o s.additional_options

\* An ssh command was built for a session with two different additional options.
C24_Witness ==
    /\ Built("SSH")
    /\ sessions[ui.id].remote_port = <<443>>
    /\ sessions[ui.id].additional_options = <<"-v", "-4">>
    /\ ui.cmd.args[2] = "8080:localhost:443"
    /\ ui.cmd.args[6] = "-4"

\* C25: for a Socks5 session the command is ssh with "-D", the local port, the
\* target, "-N", then the additional options in their order; the remote port
\* appears nowhere in it.
C25_Socks5Command ==
    Built("Socks5")
    => LET s == sessions[ui.id]
       IN /\ ui.cmd.program = "ssh"
          /\ ui.cmd.args = <<"-D", to_string(s.local_port), s.target, "-N">>
                              \o s.additional_options

\* A dynamic-forward command was built for a session that holds a remote port.
C25_Witness ==
    /\ Built("Socks5")
    /\ sessions[ui.id].remote_port = <<65535>>
    /\ sessions[ui.id].additional_options = <<"-4">>
    /\ ui.cmd.args = <<"-D", "80", "svc/web", "-N", "-4">>

\* ------------------------------------------------ the diagnostic of a log
\* get_last_log_lines on the text of a log (process.rs 152-173), checked on the
\* logs a dead entry may have: here a log file is kept in full, as the sequence
\* of its characters, and a character is known by the bytes UTF-8 gives it.
MaxLogLines == 4        \* lines of a log file
TailLines == 3          \* the lines get_last_log_lines is asked for
TailBytes == 100        \* the bytes it keeps of them

\* char::len_utf8, of the characters the logs are made of.
len_utf8(c) == CASE c = "U+00E9" -> 2 [] c = "U+20AC" -> 3 [] OTHER -> 1

\* The bytes the characters lo..hi of s take, summed half by half.
RECURSIVE Bytes(_, _, _)
Bytes(s, lo, hi) ==
    IF lo > hi THEN 0
    ELSE IF lo = hi THEN len_utf8(s[lo])
    ELSE LET mid == (lo + hi) \div 2
         IN Bytes(s, lo, mid) + Bytes(s, mid + 1, hi)

\* String::len: the length in bytes, not in characters.
len(s) == Bytes(s, 1, Len(s))

\* The place of the first "\n" among the characters lo..hi of s, 0 when there
\* is none, looked for half by half.
RECURSIVE FirstNewline(_, _, _)
FirstNewline(s, lo, hi) ==
    IF lo > hi THEN 0
    ELSE IF lo = hi THEN (IF s[lo] = "\n" THEN lo ELSE 0)
    ELSE LET mid == (lo + hi) \div 2
             left == FirstNewline(s, lo, mid)
         IN IF left # 0 THEN left ELSE FirstNewline(s, mid + 1, hi)

NextNewline(s, from) == FirstNewline(s, from, Len(s))

\* str::lines of the text after its first from-1 characters: the text is cut at
\* every "\n", and nothing follows the "\n" that ends the text.
RECURSIVE LinesFrom(_, _)
LinesFrom(s, from) ==
    IF from > Len(s) THEN <<>>
    ELSE LET k == NextNewline(s, from)
         IN IF k = 0 THEN <<SubSeq(s, from, Len(s))>>
            ELSE <<SubSeq(s, from, k - 1)>> \o LinesFrom(s, k + 1)

lines(s) == LinesFrom(s, 1)

\* process.rs 158-165: rev, take(n), rev: the last n lines, in their order.
last_lines(all, n) ==
    IF Len(all) <= n THEN all ELSE SubSeq(all, Len(all) - n + 1, Len(all))

\* [&str]::join
RECURSIVE join(_, _)
join(strs, sep) ==
    IF strs = <<>> THEN <<>>
    ELSE IF Len(strs) = 1 THEN strs[1]
    ELSE strs[1] \o sep \o join(Tail(strs), sep)

\* str::is_char_boundary: byte index of s is where a character starts, or
\* the end of s: some characters of s take the index bytes before it exactly.
\* CharsBefore is how many they are, looked for between lo and hi half by half.
RECURSIVE CharsBefore(_, _, _, _)
CharsBefore(s, lo, hi, index) ==
    IF lo >= hi THEN lo
    ELSE LET mid == (lo + hi + 1) \div 2
         IN IF Bytes(s, 1, mid) <= index
            THEN CharsBefore(s, mid, hi, index)
            ELSE CharsBefore(s, lo, mid - 1, index)

is_char_boundary(s, index) == Bytes(s, 1, CharsBefore(s, 0, Len(s), index)) = index

Panicked == [panic |-> TRUE, msg |-> <<>>]
Returned(msg) == [panic |-> FALSE, msg |-> msg]

\* &s[start..]: the slice from a byte index, which panics when the index is
\* not on a character boundary.
slice_from(s, start) ==
    IF is_char_boundary(s, start)
    THEN Returned(SubSeq(s, CharsBefore(s, 0, Len(s), start) + 1, Len(s)))
    ELSE Panicked

\* process.rs 154-172: get_last_log_lines once read_logs has returned the text.
LogTail(log_content, n) ==
    IF log_content = <<>> THEN Returned("Process exited without output")
    ELSE LET result == join(last_lines(lines(log_content), n), <<" ">>)
         IN IF len(result) > TailBytes
            THEN LET tail == slice_from(result, len(result) - TailBytes)
                 IN IF tail.panic THEN Panicked
                    ELSE Returned(<<".", ".", ".">> \o tail.msg)
            ELSE Returned(result)

\* n times the character c.
Rep(c, n) == [k \in 1..n |-> c]

\* Lines a child may have written: none longer than a terminal line or two,
\* some with characters of 2 and of 3 bytes.
LogLines ==
    {<<>>,
     Rep("a", 30),
     Rep("b", 98),
     Rep("U+00E9", 60),
     <<"U+20AC">> \o Rep("a", 99)}

\* Every line ends with "\n" but, in some logs, the last.
RECURSIVE Text(_, _)
Text(ls, closed) ==
    IF ls = <<>> THEN <<>>
    ELSE IF Len(ls) = 1 THEN ls[1] \o (IF closed THEN <<"\n">> ELSE <<>>)
    ELSE ls[1] \o <<"\n">> \o Text(Tail(ls), closed)

LogTexts ==
    {Text(ls, closed) : ls \in SeqsUpTo(LogLines, MaxLogLines), closed \in BOOLEAN}

\* The monitor has found the child of session 1, left by the previous run,
\* dead; the log holds what the child wrote, the marker not written to it.
TailInit ==
    /\ sessions = [i \in Ids |-> IF i = 1 THEN PersistedRunning(1) ELSE NoSession]
    /\ monitored_sessions = SyncFrom(sessions, 1)
    /\ lock = "free"
    /\ update_channel = <<>>
    /\ shutdown_channel = 0
    /\ logs \in [Ids -> LogTexts]
    /\ logs[2] = <<>>
    /\ procs = {}
    /\ owner = [p \in Pids |-> IF p = 1 THEN 1 ELSE 0]
    /\ signalled = {}
    /\ spawned = 0
    /\ now = 0
    /\ ticks = 0
    /\ mon = [pc |-> "check", snapshot |-> monitored_sessions, now |-> 0, sys |-> {},
              crashed |-> <<>>]
    /\ ui = Idle
    /\ reported = {}

\* process.rs 86-95: the diagnostic is read and sent, and the id marked.
TailReport ==
    /\ mon.pc = "check"
    /\ mon.snapshot # <<>>
    /\ LET session == Head(mon.snapshot)
           error_msg == LogTail(logs[session.id], TailLines)
       IN /\ ~error_msg.panic
          /\ update_channel' = Append(update_channel,
                                      StatusUpdate(session.id, error_msg.msg))
          /\ reported' = reported \cup {session.id}
          /\ mon' = [mon EXCEPT !.snapshot = Tail(mon.snapshot),
                                !.crashed = Append(mon.crashed, session.id)]
    /\ UNCHANGED <<sessions, monitored_sessions, lock, shutdown_channel, logs, procs,
                   owner, signalled, spawned, now, ticks, ui>>

\* process.rs 169: the slice panics and the monitor thread unwinds.
TailPanic ==
    /\ mon.pc = "check"
    /\ mon.snapshot # <<>>
    /\ LogTail(logs[Head(mon.snapshot).id], TailLines).panic
    /\ mon' = [mon EXCEPT !.pc = "panicked"]
    /\ UNCHANGED <<sessions, monitored_sessions, lock, update_channel, shutdown_channel,
                   logs, procs, owner, signalled, spawned, now, ticks, ui, reported>>

TailNext == TailReport \/ TailPanic

TailSpec == TailInit /\ [][TailNext]_vars

\* The monitor has gone through the read of the log of session 1.
TailRead == mon.pc = "panicked" \/ mon.crashed # <<>>

\* The last 3 lines of the log of session 1, joined with single spaces.
Joined == join(last_lines(lines(logs[1]), TailLines), <<" ">>)

\* C21: when the last 3 lines of the log, joined with single spaces, are longer
\* than 100 characters, the diagnostic is 103 characters long: "..." and then
\* the last 100 characters of the joined lines.
C21_LongTailIsCut ==
    (TailRead /\ Len(Joined) > TailBytes)
    => /\ mon.pc # "panicked"
       /\ Len(update_channel[1].msg) = TailBytes + 3
       /\ update_channel[1].msg =
             <<".", ".", ".">> \o SubSeq(Joined, Len(Joined) - TailBytes + 1, Len(Joined))

\* C30: when the log is not empty and its last 3 lines, joined with single
\* spaces, are at most 100 characters long, the diagnostic is the joined lines:
\* the last min(3, n) lines in their order, nothing before them.
C30_ShortTailIsWhole ==
    (TailRead /\ logs[1] # <<>> /\ Len(Joined) <= TailBytes)
    => /\ mon.pc # "panicked"
       /\ update_channel[1].msg = Joined

\* ------------------------------------------------- the appends to a log file
\* Storage::append_log step by step (storage.rs 66-72), checked where both
\* threads and a child write to the log of one session: in a restart of a
\* session whose child has exited, once stop_session has returned and with the
\* monitor about to report the exit. Here a log file is kept in full, as the
\* sequence of the pieces written to it, and a thread inside append_log holds
\* the text it has read.
MaxOutput == 2          \* pieces of output a child writes

\* storage.rs 58-64: the whole text of the file.
read_logs(file) == file

\* storage.rs 69
push_str(existing, content) == Append(existing, content)

\* fs::write: the file is emptied and holds what is written to it.
fs_write(file, contents) == contents

\* A write through a descriptor opened for appending (process.rs 251-257):
\* the text goes behind what the file holds.
write_append(file, content) == Append(file, content)

\* The interactive thread inside the append_log of start_session.
Appending(pc, i, pid, existing) ==
    [pc |-> pc, id |-> i, restart |-> FALSE, pid |-> pid, ret |-> "",
     existing |-> existing]

\* The logs a session may have when it is stopped: what its child wrote, and
\* the "Session Stopped" marker where its append did not fail.
StoppedLogs(pid) ==
    {<<>>, <<Output>>, <<Separator("Session Stopped", pid)>>,
     <<Output, Separator("Session Stopped", pid)>>}

AppendInit ==
    /\ sessions = [i \in Ids |-> IF i = 1
                                 THEN [PersistedRunning(1) EXCEPT !.status = "Stopped",
                                                                  !.pid = None]
                                 ELSE NoSession]
    /\ monitored_sessions = <<>>
    /\ lock = "free"
    /\ update_channel = <<>>
    /\ shutdown_channel = 0
    /\ logs \in [Ids -> StoppedLogs(1)]
    /\ logs[2] = <<>>
    /\ procs = {}
    /\ owner = [p \in Pids |-> IF p = 1 THEN 1 ELSE 0]
    /\ signalled = {}
    /\ spawned = 0
    /\ now = 0
    /\ ticks = 0
    /\ mon = [pc |-> "check", snapshot |-> <<MonitoredSession(1, 1, 0)>>, now |-> 0,
              sys |-> {}, crashed |-> <<>>]
    /\ ui = AfterStop(1, TRUE, "stop Ok")
    /\ reported = {}

\* process.rs 243-272: the log file opened, the child spawned with its output
\* redirected to it, the session's fields set; start_session goes on to its
\* append_log.
AppendStartSpawn ==
    /\ ui.pc = "start"
    /\ \E outcome \in {"open failed", "spawn failed", "spawned"} :
          IF outcome = "spawned"
          THEN LET pid == NumSessions + spawned + 1
               IN /\ procs' = procs \cup {pid}
                  /\ owner' = [owner EXCEPT ![pid] = ui.id]
                  /\ sessions' = [sessions EXCEPT ![ui.id].pid = pid,
                                                  ![ui.id].status = "Running",
                                                  ![ui.id].msg = "",
                                                  ![ui.id].last_started = now]
                  /\ spawned' = spawned + 1
                  /\ ui' = Appending("append_read", ui.id, pid, <<>>)
          ELSE /\ ui' = Polling(ui.id, "start Err")
               /\ UNCHANGED <<sessions, procs, owner, spawned>>
    /\ UNCHANGED <<monitored_sessions, lock, update_channel, shutdown_channel, logs,
                   signalled, now, ticks, mon, reported>>

\* storage.rs 68, in start_session
UiAppendReads ==
    /\ ui.pc = "append_read"
    /\ ui' = [ui EXCEPT !.pc = "append_write", !.existing = read_logs(logs[ui.id])]
    /\ UNCHANGED <<sessions, monitored_sessions, lock, update_channel, shutdown_channel,
                   logs, procs, owner, signalled, spawned, now, ticks, mon, reported>>

\* storage.rs 69-71, in start_session: append_log returns and start_session
\* goes on to its upsert.
UiAppendWrites ==
    /\ ui.pc = "append_write"
    /\ logs' = [logs EXCEPT ![ui.id] =
                   fs_write(@, push_str(ui.existing, Separator("Session Started", ui.pid)))]
    /\ ui' = [pc |-> "start_track", id |-> ui.id, restart |-> FALSE, pid |-> ui.pid,
              ret |-> ""]
    /\ UNCHANGED <<sessions, monitored_sessions, lock, update_channel, shutdown_channel,
                   procs, owner, signalled, spawned, now, ticks, mon, reported>>

\* storage.rs 68, in the monitor's report of a dead entry (process.rs 84)
MonAppendReads ==
    /\ mon.pc = "check"
    /\ mon.snapshot # <<>>
    /\ Head(mon.snapshot).pid # None
    /\ Head(mon.snapshot).pid \notin mon.sys
    /\ mon' = [pc |-> "append_write", snapshot |-> mon.snapshot, now |-> mon.now,
               sys |-> mon.sys, crashed |-> mon.crashed,
               existing |-> read_logs(logs[Head(mon.snapshot).id])]
    /\ UNCHANGED <<sessions, monitored_sessions, lock, update_channel, shutdown_channel,
                   logs, procs, owner, signalled, spawned, now, ticks, ui, reported>>

\* storage.rs 69-71, in the monitor's report: append_log returns and the
\* monitor goes on to read the diagnostic (process.rs 86).
MonAppendWrites ==
    /\ mon.pc = "append_write"
    /\ LET session == Head(mon.snapshot)
       IN logs' = [logs EXCEPT ![session.id] =
                      fs_write(@, push_str(mon.existing,
                                           Separator("Session Crashed/Exited", session.pid)))]
    /\ mon' = [pc |-> "tail", snapshot |-> mon.snapshot, now |-> mon.now,
               sys |-> mon.sys, crashed |-> mon.crashed]
    /\ UNCHANGED <<sessions, monitored_sessions, lock, update_channel, shutdown_channel,
                   procs, owner, signalled, spawned, now, ticks, ui, reported>>

\* The pieces of output the log of session i holds.
Outputs(i) == Len(SelectSeq(logs[i], LAMBDA piece : piece = Output))

\* process.rs 256-257: a child writes to stdout or stderr, both the log file of
\* its session opened for appending.
ChildAppends(p) ==
    /\ p \in procs
    /\ owner[p] # 0
    /\ Outputs(owner[p]) < MaxOutput
    /\ logs' = [logs EXCEPT ![owner[p]] = write_append(@, Output)]
    /\ UNCHANGED <<sessions, monitored_sessions, lock, update_channel, shutdown_channel,
                   procs, owner, signalled, spawned, now, ticks, mon, ui, reported>>

AppendNext ==
    \/ AppendStartSpawn
    \/ UiAppendReads
    \/ UiAppendWrites
    \/ StartTrack
    \/ MonAppendReads
    \/ MonAppendWrites
    \/ \E p \in Pids : ChildAppends(p)
    \/ \E p \in Pids : ProcExit(p)

AppendSpec == AppendInit /\ [][AppendNext]_vars

\* The step in which an append_log of session i returns, text written.
AppendReturns(i, text) ==
    \/ /\ ui.pc = "append_write"
       /\ ui'.pc = "start_track"
       /\ ui.id = i
       /\ text = Separator("Session Started", ui.pid)
    \/ /\ mon.pc = "append_write"
       /\ mon'.pc = "tail"
       /\ Head(mon.snapshot).id = i
       /\ text = Separator("Session Crashed/Exited", Head(mon.snapshot).pid)

\* C29: when append_log(id, text) returns, the log holds all that it held
\* before the return, whoever wrote it (the child of the session, the other
\* thread's append_log, an earlier call), and text behind it.
C29_AppendKeepsContent ==
    [][\A i \in Ids :
          \A text \in {Separator("Session Started", p) : p \in Pids}
                         \cup {Separator("Session Crashed/Exited", p) : p \in Pids} :
             AppendReturns(i, text) => logs'[i] = Append(logs[i], text)]_vars

\* The step in which stop_session is called for session i.
StopCalled(i) ==
    /\ ui.pc = "idle"
    /\ ui'.id = i
    /\ ui'.pc = "stop_untrack" \/ ui'.ret = "stop Err"

\* C31: stop_session on a session without a pid sends no signal, appends
\* nothing to the log and returns Ok with the session Stopped, its pid None and
\* its id untracked; on a session that is Stopped and untracked already, as a
\* stop_session leaves it, the call changes neither the registry nor the
\* tracking set nor the log.
C31_StopWithoutPid ==
    [][\A i \in Ids :
          /\ (StopCalled(i) /\ sessions[i].pid = None)
             => /\ ui'.pc = "stop_untrack"
                /\ signalled' = signalled
                /\ logs' = logs
          /\ (StopOkReturns(i) /\ ui.pid = None)
             => /\ sessions'[i].status = "Stopped"
                /\ sessions'[i].pid = None
                /\ EntriesOf(monitored_sessions', i) = {}
                /\ signalled' = signalled
                /\ logs' = logs
          /\ (/\ StopOkReturns(i)
              /\ ui.pid = None
              /\ sessions[i].status = "Stopped"
              /\ ~Tracked(i))
             => /\ sessions' = sessions
                /\ monitored_sessions' = monitored_sessions]_vars

\* A restart has called stop_session on a session that an earlier stop_session
\* left Stopped, its marker the last text of the log, and the call has gone
\* past its kill and its append to its last step.
C31_Witness ==
    /\ ui.pc = "stop_untrack"
    /\ ui.pid = None
    /\ sessions[ui.id].status = "Stopped"
    /\ ~Tracked(ui.id)
    /\ logs[ui.id].kind = "Session Stopped"

\* A step of the monitor thread.
MonSteps == mon' # mon

\* The steps of the interactive thread that write to the registry: that of
\* start_session, that of stop_session, a drain that receives an update, and
\* the deletion of a session.
RegistryWriter ==
    \/ ui.pc \in {"idle", "start"} /\ ui'.pc = "start_track"
    \/ ui.pc = "stop_untrack" /\ ui'.ret = "stop Ok"
    \/ /\ ui.pc \in {"idle", "poll"}
       /\ ui'.pc \in {"idle", "drop_join"}
       /\ update_channel # <<>>
       /\ update_channel' = <<>>
    \/ ui.pc = "idle" /\ ui'.pc = "poll" /\ ~sessions'[ui'.id].present

\* C32: a step of the monitor leaves the registry as it is, the status and the
\* pid of every session with it, and leaves the interactive thread, the
\* process table and the signals sent as they are: what it writes is the
\* tracking set, the update channel and the logs. The registry changes only in
\* start_session, in stop_session, in a drain and in the deletion of a session.
C32_MonitorLeavesRegistry ==
    [][/\ MonSteps
          => /\ sessions' = sessions
             /\ ui' = ui
             /\ procs' = procs
             /\ owner' = owner
             /\ signalled' = signalled
             /\ spawned' = spawned
       /\ sessions' # sessions => (mon' = mon /\ RegistryWriter)]_vars

\* The monitor has completed a cycle in which it reported the death of the
\* child of session 1, and the registry still holds the session as Running
\* with the pid of that child.
C32_Witness ==
    /\ mon.pc = "wait"
    /\ 1 \in reported
    /\ update_channel # <<>>
    /\ ~Tracked(1)
    /\ sessions[1].status = "Running"
    /\ sessions[1].pid = 1
    /\ 1 \notin procs

\* C33: every update in the channel has an Error status and no pid; a drain
\* leaves every session it changes with an Error status and no pid; and a
\* session comes to be Running, or to have a pid it had not, in start_session
\* only.
C33_UpdatesAreErrors ==
    [][/\ \A k \in DOMAIN update_channel' :
             /\ update_channel'[k].status = "Error"
             /\ update_channel'[k].pid = None
       /\ Drains
          => \A i \in Ids :
                sessions'[i] # sessions[i]
                => /\ sessions'[i].status = "Error"
                   /\ sessions'[i].pid = None
       /\ \A i \in Ids :
             (\/ sessions[i].status # "Running" /\ sessions'[i].status = "Running"
              \/ sessions'[i].pid # None /\ sessions'[i].pid # sessions[i].pid)
             => StartAppends(i)]_vars

\* A drain has applied the update for the dead child of session 1, whose
\* marker ends the log, to the session.
C33_Witness ==
    /\ ui.pc = "idle"
    /\ ui.ret = "poll true"
    /\ sessions[1].status = "Error"
    /\ sessions[1].msg = "Session Crashed/Exited"
    /\ sessions[1].pid = None
    /\ 1 \notin procs

\* C34: the tracking set never holds two entries with one session id, whatever
\* sync_monitored_sessions, start_session, stop_session and the monitor's
\* pruning have done to it.
C34_OneEntryPerId ==
    \A i \in Ids : Cardinality(EntriesOf(monitored_sessions, i)) <= 1

\* start_session has returned Ok for a session that sync_monitored_sessions
\* had tracked, and the tracking set holds one entry for it, with the pid of
\* the child just spawned.
C34_Witness ==
    /\ ui.pc = "poll"
    /\ ui.ret = "start Ok"
    /\ EntriesOf(monitored_sessions, ui.id) = {1}
    /\ monitored_sessions[1].pid = NumSessions + 1
    /\ sessions[ui.id].pid = monitored_sessions[1].pid

\* The step of the monitor that goes past a snapshot entry without a pid.
MonFindsNoPid ==
    /\ mon.pc = "check"
    /\ mon.snapshot # <<>>
    /\ Head(mon.snapshot).pid = None
    /\ mon' # mon

\* C35: the cycle queues no update and writes no marker for an entry without a
\* pid, and no entry without a pid is in the tracking set when the cycle has
\* pruned; an entry with the pid of a process that is in the process table is
\* in the tracking set, as it was, after every step of the cycle.
C35_CycleDropsOnlyPidless ==
    [][/\ MonFindsNoPid
          => /\ update_channel' = update_channel
             /\ logs' = logs
       /\ MonPrunes
          => \A k \in DOMAIN monitored_sessions' : monitored_sessions'[k].pid # None
       /\ MonSteps
          => \A k \in DOMAIN monitored_sessions :
                monitored_sessions[k].pid \in procs
                => monitored_sessions[k] \in SeqRange(monitored_sessions')]_vars

\* C36: a drain consumes the updates that name no session of the list and
\* drops them: no such session comes into the list or is changed, and when no
\* update of the queue names a session of the list the drain changes no
\* session and returns false.
C36_OrphanUpdateIsDropped ==
    [][Drains
       => /\ update_channel' = <<>>
          /\ \A i \in Ids : ~sessions[i].present => sessions'[i] = sessions[i]
          /\ (\A k \in DOMAIN update_channel :
                 ~sessions[update_channel[k].session_id].present)
             => /\ sessions' = sessions
                /\ ui'.ret = "poll false"]_vars

\* Session 1 was deleted with the death of its child reported and the update
\* not yet received: the drain of the turn is about to receive it.
C36_Witness ==
    /\ ui.pc = "poll"
    /\ ~sessions[1].present
    /\ update_channel # <<>>
    /\ \A k \in DOMAIN update_channel : update_channel[k].session_id = 1

\* The steps in which the shutdown signal is sent: by the Drop of the manager's
\* StatusMonitor, by StatusMonitor::shutdown, by the Drop that follows it.
TeardownSends ==
    \/ ui.pc = "idle" /\ ui'.pc \in {"drop_join", "shutdown_join"}
    \/ ui.pc = "dropping" /\ ui'.pc # "dropping"

\* C37: a shutdown signal sent when the monitor thread has ended queues
\* nothing and the thread that sent it goes on; the Drop that runs after
\* StatusMonitor::shutdown waits for nothing and ends the teardown; and a
\* teardown that finds the monitor thread ended returns.
C37_TeardownRepeats ==
    /\ [][TeardownSends
          => /\ shutdown_channel' = IF MonExited THEN shutdown_channel
                                    ELSE shutdown_channel + 1
             /\ ui'.pc \in {"drop_join", "shutdown_join", "done"}]_vars
    /\ (ui.pc = "dropping") ~> (ui.pc = "done")
    /\ (MonExited /\ ui.pc \in {"drop_join", "shutdown_join"}) ~> (ui.pc = "done")

\* StatusMonitor::shutdown has joined the monitor thread, which left its loop
\* on the signal, and the Drop after it has run: updates that the manager, its
\* receiver alive, never drained are still in the channel.
C37_Witness ==
    /\ ui.pc = "done"
    /\ mon.pc = "exited"
    /\ shutdown_channel = 0
    /\ update_channel # <<>>

====
